---- MODULE Spec2Model ----
(***************************************************************************)
(* Model of the ezlo-hub-kit session engine (src/src/EzloHub.ts): the      *)
(* EzloHub class (connect / disconnect / sendRequest / runScene /          *)
(* setHouseMode / observers) and its KeepAliveAgent, running on the        *)
(* websocket-as-promised transport.                                        *)
(*                                                                         *)
(* One action is one macrotask of the node event loop (an application      *)
(* call, a socket event, a timer) together with the promise continuations  *)
(* (microtasks) it triggers.  Observer dispatch is a macrotask of its own: *)
(* the transport's onUnpackedMessage channel invokes its listeners         *)
(* asynchronously, after the response has been matched to its request.     *)
(*                                                                         *)
(* Encoding: absent / undefined fields are the string "none"; a null       *)
(* error is "null"; request ids are positive integers, the id              *)
(* 'ui_broadcast' is 0 and any other id is -1.                             *)
(***************************************************************************)
EXTENDS Integers, Sequences, FiniteSets, TLC

VARIABLES
    isConnected,        \* EzloHub._isConnected
    ws,                 \* state of the transport: "closed", "opening", "open", "closing",
                        \* "aborting" (close() during the opening handshake)
    ops,                \* the promise chains started so far (application calls and supervisor connects)
    nextId,             \* next request id the transport attaches
    observers,          \* EzloHub.observers
    nextHandle,         \* identity of the next observer object addObserver creates
    removed,            \* handles on which removeObserver has returned
    dispatchQ,          \* messages whose observer dispatch is scheduled
    invoked,            \* handles whose handler ran in the latest dispatch pass, in order
    pingExpiry,         \* KeepAliveAgent.pingExpiry: "undefined", "armed", "fired"
    pingListener,       \* the current socket has the heartbeat 'ping' listener
    closeWaiters,       \* supervisor continuations waiting for wsp.close() to complete
    intervals,          \* the setInterval timers created by reconnect()
    reconnectInterval,  \* KeepAliveAgent.reconnectInterval: index into intervals, 0 = undefined
    unsolicited,        \* number of unsolicited messages the hub has sent
    loggedIn,           \* the hub has accepted a login on the current socket
    firstSent,          \* the first message transmitted on the current socket
    lookup,             \* a lookup by name: the list received, the name asked for, the outcome
    discovery,          \* discoverEzloHubs: createHub in progress, _hubs, the callback's invocations
    resolver            \* EzloCloudResolver: the clock, the cached tokens, the request in progress

vars == <<isConnected, ws, ops, nextId, observers, nextHandle, removed, dispatchQ, invoked,
          pingExpiry, pingListener, closeWaiters, intervals, reconnectInterval,
          unsolicited, loggedIn, firstSent, lookup, discovery, resolver>>

\* the state outside the session: no action of the session touches it
aux == <<lookup, discovery, resolver>>

session == <<isConnected, ws, ops, nextId, observers, nextHandle, removed, dispatchQ, invoked,
             pingExpiry, pingListener, closeWaiters, intervals, reconnectInterval,
             unsolicited, loggedIn, firstSent>>

----------------------------------------------------------------------------
(* Bounds *)

MaxOps == 2             \* application calls that start a promise chain
MaxSupConnects == 2     \* connect() calls issued by the reconnect loop
MaxIntervals == 2       \* reconnect() invocations
MaxUnsolicited == 1     \* inbound messages that answer no pending request
MaxAppObservers == 2    \* observers the application registers
MaxQueue == 1           \* received messages whose observer dispatch has not run yet
MaxList == 3            \* elements of a list the hub returns
MaxCallbacks == 3       \* invocations of the discovery callback
MaxTime == 3            \* clock readings of Date.now()
MaxCalls == 3           \* calls of cloudAuthenticate

Scenes == {"S1", "S2"}
Modes == {"1", "2"}

UI_BROADCAST == 0
OTHER_ID == 0 - 1

ALREADY_LOGGED == "user.login.alreadylogged"
LoginErrors == {"null", ALREADY_LOGGED, "user.login.badpassword"}
ResponseErrors == {"null", "rpc.error"}

----------------------------------------------------------------------------
(* Messages *)

Msg(id, error, sub, scene, to, status, current) ==
    [id |-> id, error |-> error, msg_subclass |-> sub, scene_id |-> scene,
     to |-> to, status |-> status, current |-> current]

\* exported predicates, EzloHub.ts:15-27.  In the source the left operand of
\* each && is the predicate function itself, not a call of it: a function
\* object is truthy, so the conjunction is decided by the right operand alone.
FunctionIsTruthy == TRUE

UIBroadcastPredicate(msg) == msg.id = UI_BROADCAST

UIBroadcastHouseModeChangePredicate(msg) ==
    FunctionIsTruthy /\ msg.msg_subclass = "hub.modes.switched"

UIBroadcastHouseModeChangeDonePredicate(msg) ==
    FunctionIsTruthy /\ msg.status = "done"

UIBroadcastRunScenePredicate(msg) ==
    FunctionIsTruthy /\ msg.msg_subclass = "hub.scene.run.progress"

UIBroadcastRunSceneDonePredicate(msg) ==
    FunctionIsTruthy /\ msg.status = "finished"

\* the completion predicate as it would be without the comparison at 381
sceneCompleteAnyScene(scene, msg) ==
    FunctionIsTruthy /\ msg.scene_id # "none"

\* runScene's completion predicate, EzloHub.ts:381
sceneCompletePredicate(scene, msg) ==
    FunctionIsTruthy /\ msg.scene_id = scene

\* setHouseMode's completion predicate, EzloHub.ts:425
modeChangeDonePredicate(mode, msg) ==
    FunctionIsTruthy /\ msg.to = mode

AppPredicates == {"UIBroadcastPredicate", "UIBroadcastRunSceneDonePredicate",
                  "UIBroadcastHouseModeChangeDonePredicate"}

\* the predicate of a registered observer applied to a message
ObserverMatches(obs, msg) ==
    CASE obs.kind = "scene" -> sceneCompletePredicate(obs.key, msg)
      [] obs.kind = "mode" -> modeChangeDonePredicate(obs.key, msg)
      [] obs.key = "UIBroadcastPredicate" -> UIBroadcastPredicate(msg)
      [] obs.key = "UIBroadcastRunSceneDonePredicate" -> UIBroadcastRunSceneDonePredicate(msg)
      [] OTHER -> UIBroadcastHouseModeChangeDonePredicate(msg)

\* what the hub may send without being asked
SceneBroadcast(id, sub, scene, status) == Msg(id, "none", sub, scene, "none", status, "none")
ModeBroadcast(id, sub, to, status) == Msg(id, "none", sub, "none", to, status, "none")

SceneMessages ==
    {SceneBroadcast(UI_BROADCAST, "hub.scene.run.progress", s, "finished") : s \in Scenes}
    \cup {SceneBroadcast(UI_BROADCAST, "hub.scene.run.progress", "S1", "started"),
          SceneBroadcast(UI_BROADCAST, "hub.item.updated", "S1", "finished"),
          SceneBroadcast(OTHER_ID, "hub.scene.run.progress", "S1", "finished")}

ModeMessages ==
    {ModeBroadcast(UI_BROADCAST, "hub.modes.switched", m, "done") : m \in Modes}
    \cup {ModeBroadcast(UI_BROADCAST, "hub.modes.switched", "1", "begin"),
          ModeBroadcast(UI_BROADCAST, "hub.item.updated", "1", "done"),
          ModeBroadcast(OTHER_ID, "hub.modes.switched", "1", "done")}

UnsolicitedMessages == SceneMessages \cup ModeMessages

----------------------------------------------------------------------------
(* Promise chains *)

\* One record per promise chain.  outcome / value / cause are the state of
\* the promise returned to the caller; pc is where the chain is waiting:
\*   "opening"  for wsp.open()
\*   "login"    for the response to hub.offline.login.ui   (request id rid)
\*   "request"  for the response to its own request method (request id rid)
\*   "closing"  for wsp.close()
\*   "idle"     for nothing (finished, or left to its observer and timer)
\* method is the request the chain is about to make or has made, sent the
\* last request of its own that went out on the socket, loginErr the error
\* field of the login response a connect() call received, current the mode
\* currentHouseMode() returned.
NewOp(kind, arg, method, k) ==
    [kind |-> kind, arg |-> arg, pc |-> "idle", method |-> method, rid |-> 0,
     outcome |-> "pending", value |-> "none", cause |-> "none",
     timer |-> "unset", loginErr |-> "none", current |-> "none", sent |-> "none",
     interval |-> k]

DomainKinds == {"info", "runScene", "setHouseMode"}

\* resolve / reject of `new Promise((resolve, reject) => ...)`: only the
\* first call settles the promise
\* reject as it would be if a settled promise could be settled again
rejectAgain(o, c) == [o EXCEPT !.outcome = "rejected", !.cause = c]

resolve(o, v) ==
    IF o.outcome = "pending" THEN [o EXCEPT !.outcome = "resolved", !.value = v] ELSE o

reject(o, c) ==
    IF o.outcome = "pending" THEN [o EXCEPT !.outcome = "rejected", !.cause = c] ELSE o

\* what the Error a rejected chain carries names, from the template of the
\* reject that settled it:
\*   159, 165  `Login failed ... ${this.url} due to error ...`
\*   498       `Request to ${this.identity} failed with ${response.error.data} - Request: ${JSON.stringify(request)}`
\*   505       `Request to ${this.identity} failed due to error ${err}` (the request goes to console.log only)
\*   394, 438  `Hub ${this.identity} did not acknowlege Scene ... / Mode change within ... seconds`
ErrorNames(o) ==
    CASE o.outcome # "rejected" -> {}
      [] o.kind \notin DomainKinds -> {"url", "operation", "cause"}
      [] o.cause = "response" -> {"identity", "operation", "cause"}
      [] o.cause = "timeout" -> {"identity", "operation", "cause"}
      [] OTHER -> {"identity", "cause"}

\* the open continuation as it would be if sendRequest did not log in first
wspSendWithoutLogin(o, id) ==
    IF o.kind \in DomainKinds
    THEN [o EXCEPT !.pc = "request", !.rid = id, !.sent = o.method]
    ELSE [o EXCEPT !.pc = "login", !.rid = id]

\* wsp.sendRequest: attach a fresh id, transmit, wait for the response
wspSendLogin(o, id) == [o EXCEPT !.pc = "login", !.rid = id]
wspSendRequest(o, id) == [o EXCEPT !.pc = "request", !.rid = id, !.sent = o.method]

\* sendRequest's .catch as it would be if it only logged the error
sendRequestFailedLogOnly(o, c) == [o EXCEPT !.pc = "idle", !.rid = 0]

\* the .catch of sendRequest (503-506) followed by the caller's own
\* .catch(err => reject(err)) (397, 441, 443)
sendRequestFailed(o, c) == [reject(o, c) EXCEPT !.pc = "idle", !.rid = 0]

\* continuation of a resolved connect(): the caller of connect() gets the
\* hub; sendRequest goes on to `.then(() => this.wsp.sendRequest(request))`,
\* which throws when the socket is not open
connectResolved(o, w, id) ==
    IF o.kind \in DomainKinds
    THEN IF w = "open" THEN wspSendRequest(o, id) ELSE sendRequestFailed(o, "transport")
    ELSE [resolve(o, "hub") EXCEPT !.pc = "idle", !.rid = 0]

\* continuation of a rejected connect()
connectRejected(o, c) ==
    IF o.kind \in DomainKinds
    THEN sendRequestFailed(o, c)
    ELSE [reject(o, c) EXCEPT !.pc = "idle", !.rid = 0]

\* connect as it would be without the test of _isConnected at 149
connectUnguarded(o, connected, w, id) ==
    CASE w \in {"closing", "aborting"} -> connectRejected(o, "transport")
      [] w = "open" -> wspSendLogin(o, id)
      [] OTHER -> [o EXCEPT !.pc = "opening", !.rid = 0]

\* EzloHub.connect, 148-156, as far as it runs without waiting: resolved at
\* once when _isConnected, else wsp.open(), which fails on a closing socket,
\* is already resolved on an open one (the login request follows at once)
\* and is pending otherwise
connect(o, connected, w, id) ==
    IF connected THEN connectResolved(o, w, id)
    ELSE CASE w \in {"closing", "aborting"} -> connectRejected(o, "transport")
           [] w = "open" -> wspSendLogin(o, id)
           [] OTHER -> [o EXCEPT !.pc = "opening", !.rid = 0]

\* wsp.open() creates a socket only when there is none
wsAfterConnect(connected, w) ==
    IF ~connected /\ w = "closed" THEN "opening" ELSE w

\* wsp.close(), 180: nothing to do on a closed socket; otherwise the socket
\* closes, aborting the handshake when it has not opened yet
wsAfterClose(w) ==
    CASE w = "closed" -> "closed"
      [] w \in {"opening", "aborting"} -> "aborting"
      [] OTHER -> "closing"

\* the login response handler, 157-163: a refused login rejects, and the
\* handler then runs on (there is no return after reject)
loginRefused(resp) == resp.error # "null" /\ resp.error # ALREADY_LOGGED

onLoginResponse(o, resp, w, id) ==
    LET o1 == IF o.kind \in DomainKinds THEN o ELSE [o EXCEPT !.loginErr = resp.error]
    IN  IF loginRefused(resp) THEN connectRejected(o1, "login")
        ELSE connectResolved(o1, w, id)

isConnectedAfterLogin(resp) == TRUE

\* the short circuit as it would be if it compared the mode object, not its _id
alreadyInModeObject(mode, currentMode) == FALSE

\* setHouseMode's short circuit, 418
alreadyInMode(mode, currentMode) == mode = currentMode

\* the response handler of sendRequest, 495-502, followed by the caller's
\* .then: info resolves; runScene and the mode switch arm their timer;
\* currentHouseMode feeds setHouseMode's decision
onResponse(o, resp, connected, w, id) ==
    IF resp.error # "null" THEN sendRequestFailed(o, "response")
    ELSE CASE o.method = "hub.info.get" ->
                [resolve(o, "result") EXCEPT !.pc = "idle", !.rid = 0]
           [] o.method = "hub.modes.get" ->
                IF alreadyInMode(o.arg, resp.current)
                THEN [resolve(o, o.arg) EXCEPT !.pc = "idle", !.rid = 0, !.current = resp.current]
                ELSE connect([o EXCEPT !.current = resp.current, !.method = "hub.modes.switch",
                                       !.pc = "idle", !.rid = 0],
                             connected, w, id)
           [] OTHER ->
                [o EXCEPT !.pc = "idle", !.rid = 0, !.timer = "armed"]

\* the completion handler of runScene / setHouseMode, 382-386 and 426-430
completionHandler(o, v) ==
    resolve([o EXCEPT !.timer = IF @ = "armed" THEN "cleared" ELSE @], v)

\* the timeout callback as it would be if it only removed the observer
expiryCallbackSilent(o) == [o EXCEPT !.timer = "fired"]

\* the timeout callback, 391-395 and 435-439
expiryCallback(o) == reject([o EXCEPT !.timer = "fired"], "timeout")

Transmits(before, after) == after.rid # 0 /\ after.rid # before.rid

----------------------------------------------------------------------------
(* Observer registry *)

\* an observer object: kind "app" (registered by the application, key names
\* its predicate) or "scene" / "mode" (the completion observer of call op,
\* key the scene or mode awaited); does is what its handler does when
\* invoked: "complete" (the completion handler of runScene / setHouseMode),
\* or for an application's handler "nothing", "remove" (removes the
\* application's observers), "add" (registers a further observer) or "throw"
Observer(id, kind, key, op, does) ==
    [id |-> id, kind |-> kind, key |-> key, op |-> op, does |-> does]

HandlerKinds == {"nothing", "remove", "add", "throw"}

addObserver(obs, observer) == Append(obs, observer)

\* removeObserver, 466-468: filter() builds a new array, which is returned;
\* this.observers is not assigned
RECURSIVE removeObserverResult(_, _, _)
removeObserverResult(obs, hs, k) ==
    IF k > Len(obs) THEN <<>>
    ELSE (IF obs[k].id \in hs THEN <<>> ELSE <<obs[k]>>) \o removeObserverResult(obs, hs, k + 1)

\* this.observers after removeObserver has been called on the handles hs
removeObserver(obs, hs) == obs

\* the observers notifyObservers selects for a message, 476, in registry order
RECURSIVE Matching(_, _, _)
Matching(obs, msg, k) ==
    IF k > Len(obs) THEN <<>>
    ELSE (IF ObserverMatches(obs[k], msg) THEN <<obs[k]>> ELSE <<>>) \o Matching(obs, msg, k + 1)

Ids(sel) == [k \in DOMAIN sel |-> sel[k].id]
Range(f) == {f[k] : k \in DOMAIN f}

\* the handle runScene / setHouseMode call i holds (completionObserver)
HandlesOf(obs, i) ==
    {obs[k].id : k \in {j \in DOMAIN obs : obs[j].kind \in {"scene", "mode"} /\ obs[j].op = i}}

InRegistry(h) == \E k \in DOMAIN observers : observers[k].id = h

\* the registry as it would be if it belonged to the socket and went with it
observersClearedOnClose(obs) == <<>>

\* the registry over a close of the socket: it is a field of EzloHub (90),
\* and the one listener that feeds it is attached to the wsp object in the
\* constructor (107), not to a socket
observersAfterClose(obs) == obs

\* the handles of the application's observers in a registry
AppHandles(obs) == {obs[k].id : k \in {j \in DOMAIN obs : obs[j].kind = "app"}}

\* forEach over the selected observers, 477, from the k-th on.  st holds the
\* handlers run so far (inv), this.observers (obs), the handles removeObserver
\* was called on (rem) and the next observer identity (nh).  A handler that
\* throws ends the forEach.
RECURSIVE RunHandlers(_, _, _)
RunHandlers(sel, k, st) ==
    IF k > Len(sel) THEN st
    ELSE LET o == sel[k]
             ran == [st EXCEPT !.inv = Append(@, o.id)]
         IN  CASE o.does = "throw" -> ran
               [] o.does = "add" ->
                    RunHandlers(sel, k + 1,
                        [ran EXCEPT !.obs = addObserver(@, Observer(st.nh, "app", o.key, 0, "nothing")),
                                    !.nh = @ + 1])
               [] o.does = "complete" ->
                    RunHandlers(sel, k + 1,
                        [ran EXCEPT !.obs = removeObserver(@, {o.id}), !.rem = @ \cup {o.id}])
               [] o.does = "remove" ->
                    RunHandlers(sel, k + 1,
                        [ran EXCEPT !.obs = removeObserver(@, AppHandles(st.obs)),
                                    !.rem = @ \cup AppHandles(st.obs)])
               [] OTHER -> RunHandlers(sel, k + 1, ran)

----------------------------------------------------------------------------
(* Keep-alive supervisor *)

\* a polling loop as it would be if reconnectInProgress started out true
NewIntervalBusy == [active |-> TRUE, inProgress |-> TRUE]

NewInterval == [active |-> TRUE, inProgress |-> FALSE]

\* effect of settled supervisor connects on the polling timers, 556-563:
\* success clears the interval reconnectInterval refers to, failure resets
\* the guard of the interval whose tick started the attempt
SupEffects(old, new, ivs, cur) ==
    LET settledNow(i, how) == /\ i \in DOMAIN old
                              /\ new[i].kind = "supConnect"
                              /\ old[i].outcome = "pending"
                              /\ new[i].outcome = how
        succeeded == \E i \in DOMAIN old : settledNow(i, "resolved")
        failedK == {new[i].interval : i \in {j \in DOMAIN old : settledNow(j, "rejected")}}
    IN  [k \in DOMAIN ivs |->
            [active |-> ivs[k].active /\ ~(succeeded /\ k = cur),
             inProgress |-> ivs[k].inProgress /\ k \notin failedK]]

RECURSIVE Repeat(_, _)
Repeat(x, n) == IF n = 0 THEN <<>> ELSE <<x>> \o Repeat(x, n - 1)

NumApp == Cardinality({i \in DOMAIN ops : ops[i].kind # "supConnect"})
NumSup == Cardinality({i \in DOMAIN ops : ops[i].kind = "supConnect"})
NumAppObservers == Cardinality({k \in DOMAIN observers : observers[k].kind = "app"})

\* what the chains transmit in this step: "login" for hub.offline.login.ui,
\* "request" for a request of the operation itself
Transmitted ==
    {ops'[i].pc : i \in {j \in DOMAIN ops' :
                             /\ ops'[j].rid # 0
                             /\ (j \in DOMAIN ops => ops[j].rid # ops'[j].rid)}}

\* the first message transmitted on the socket as it is after this step
FirstSent ==
    CASE ws' \notin {"open", "closing"} -> "none"
      [] ws \in {"open", "closing"} /\ firstSent # "none" -> firstSent
      [] Transmitted = {} -> "none"
      [] OTHER -> CHOOSE m \in Transmitted : TRUE

----------------------------------------------------------------------------
(* Lookups by name: device(name), scene(name), room(name), houseMode(name),
   242-244, 288-290, 307-309, 326-328 *)

Names == {"a", "b", "c"}
Lookups == {"device", "scene", "room", "houseMode"}

\* the lists the hub may return: up to MaxList elements, each with its own
\* _id and a name, names possibly repeated
ListOf(f) == [k \in DOMAIN f |-> [_id |-> k, name |-> f[k]]]
Lists == {ListOf(f) : f \in UNION {[1..n -> Names] : n \in 0..MaxList}}

\* list.filter(elem => elem.name === name), from the k-th element on
RECURSIVE filterByName(_, _, _)
filterByName(list, name, k) ==
    IF k > Len(list) THEN <<>>
    ELSE (IF list[k].name = name THEN <<list[k]>> ELSE <<>>) \o filterByName(list, name, k + 1)

\* [0] as it would be if the last match were taken
lastElement(l) == IF l = <<>> THEN "undefined" ELSE l[Len(l)]

\* [0] of an array: its first element, undefined when it is empty
firstElement(l) == IF l = <<>> THEN "undefined" ELSE l[1]

lookupByName(list, name) == firstElement(filterByName(list, name, 1))

NoLookup == [which |-> "none", list |-> <<>>, name |-> "none", outcome |-> "none", value |-> "none"]

\* the .then of a lookup runs on the list its request returned
LookupByName ==
    /\ lookup.outcome = "pending"
    /\ lookup' = [lookup EXCEPT !.outcome = "resolved",
                                !.value = lookupByName(lookup.list, lookup.name)]
    /\ UNCHANGED <<discovery, resolver>>
    /\ UNCHANGED session

----------------------------------------------------------------------------
(* Discovery: discoverEzloHubs, 48-83, and EzloHub.createHub, 127-138 *)

Serials == {"h1", "h2"}

\* per serial, where its createHub call waits ("idle": none in progress) and
\* what _hubs holds for it; calls are the arguments the callback was given
NoDiscovery ==
    [pc |-> [s \in Serials |-> "idle"], hubs |-> [s \in Serials |-> "undefined"], calls |-> <<>>]

\* the 'up' event, 54: createHub starts with `await credentialsResolver.credentials(hubSerial)`
ServiceUp(s) ==
    /\ discovery.pc[s] = "idle"
    /\ Len(discovery.calls) < MaxCallbacks
    /\ discovery' = [discovery EXCEPT !.pc[s] = "credentials"]
    /\ UNCHANGED <<lookup, resolver>>
    /\ UNCHANGED session

\* the credentials arrive: createHub goes on to `await MDNSResolver.resolve4(hostname)`
CredentialsResolved(s) ==
    /\ discovery.pc[s] = "credentials"
    /\ discovery' = [discovery EXCEPT !.pc[s] = "resolve4"]
    /\ UNCHANGED <<lookup, resolver>>
    /\ UNCHANGED session

\* createHub's promise is fulfilled with v: the .then of 56-59 stores v in
\* _hubs and hands it to the callback
createHubFulfilled(d, s, v) ==
    [d EXCEPT !.pc[s] = "idle", !.hubs[s] = v, !.calls = Append(@, [serial |-> s, arg |-> v])]

\* the catch block of createHub, 134-137: an async function that returns
\* err fulfils its promise with err
createHubCaught(d, s, err) == createHubFulfilled(d, s, err)

\* the credentials resolver rejects
CredentialsFailed(s) ==
    /\ discovery.pc[s] = "credentials"
    /\ discovery' = createHubCaught(discovery, s, "Error: credentials")
    /\ UNCHANGED <<lookup, resolver>>
    /\ UNCHANGED session

\* the address arrives: `return new EzloHub(url, credentails)`
Resolve4Resolved(s) ==
    /\ discovery.pc[s] = "resolve4"
    /\ discovery' = createHubFulfilled(discovery, s, "hub")
    /\ UNCHANGED <<lookup, resolver>>
    /\ UNCHANGED session

\* the address resolution rejects
Resolve4Failed(s) ==
    /\ discovery.pc[s] = "resolve4"
    /\ discovery' = createHubCaught(discovery, s, "Error: resolve4")
    /\ UNCHANGED <<lookup, resolver>>
    /\ UNCHANGED session

\* the 'down' event, 64-68: _hubs[serial].disconnect().then(() => delete
\* _hubs[serial]); on anything but a hub the call throws and _hubs is as it was
ServiceDown(s) ==
    /\ discovery.hubs[s] = "hub"
    /\ discovery' = [discovery EXCEPT !.hubs[s] = "undefined"]
    /\ UNCHANGED <<lookup, resolver>>
    /\ UNCHANGED session

----------------------------------------------------------------------------
(* EzloCloudResolver: cached authorization tokens,
   CredentialsResolvers/EzloCloudResolver.ts 47-103 and 188-193 *)

\* how long after it is issued a token expires, in clock readings
Lifetimes == {1, 2}

\* AuthToken.expired, 190-192: `return Date.now() < this.expiration`
expired(now, expiration) == now < expiration

\* authIsValid, 47-49: `auth !== undefined && auth.expired() === false`
authIsValid(auth, now) == auth.defined /\ expired(now, auth.expiration) = FALSE

\* a cached token: undefined, or an AuthToken with its expiration
undefinedAuth == [defined |-> FALSE, expiration |-> 0]
AuthToken(expiration) == [defined |-> TRUE, expiration |-> expiration]

\* decision says, for the last call of cloudAuthenticate, what it did with
\* each cached token
NoResolver ==
    [now |-> 0, portalAuth |-> undefinedAuth, cloudAuth |-> undefinedAuth, pc |-> "idle",
     calls |-> 0, decision |-> [cloud |-> "none", portal |-> "none"]]

Tick ==
    /\ resolver.now < MaxTime
    /\ resolver' = [resolver EXCEPT !.now = @ + 1]
    /\ UNCHANGED <<lookup, discovery>>
    /\ UNCHANGED session

\* cloudAuthenticate, 83-103, up to its first wait: the cached cloud token
\* when authIsValid; else portalAuthenticate, 57-75, which answers with the
\* cached portal token when authIsValid (the exchange request follows at
\* once) and with a login request to the portal otherwise
CloudAuthenticate ==
    /\ resolver.pc = "idle"
    /\ resolver.calls < MaxCalls
    /\ resolver' =
         IF authIsValid(resolver.cloudAuth, resolver.now)
         THEN [resolver EXCEPT !.calls = @ + 1,
                               !.decision = [cloud |-> "reused", portal |-> "none"]]
         ELSE IF authIsValid(resolver.portalAuth, resolver.now)
         THEN [resolver EXCEPT !.calls = @ + 1, !.pc = "cloudRequest",
                               !.decision = [cloud |-> "fetched", portal |-> "reused"]]
         ELSE [resolver EXCEPT !.calls = @ + 1, !.pc = "portalRequest",
                               !.decision = [cloud |-> "fetched", portal |-> "fetched"]]
    /\ UNCHANGED <<lookup, discovery>>
    /\ UNCHANGED session

\* the portal answers, 65-68: the token is cached and the exchange request goes out
PortalResponse ==
    /\ resolver.pc = "portalRequest"
    /\ \E life \in Lifetimes :
         resolver' = [resolver EXCEPT !.portalAuth = AuthToken(resolver.now + life), !.pc = "cloudRequest"]
    /\ UNCHANGED <<lookup, discovery>>
    /\ UNCHANGED session

\* the cloud answers the exchange, 91-94: the token is cached
CloudResponse ==
    /\ resolver.pc = "cloudRequest"
    /\ \E life \in Lifetimes :
         resolver' = [resolver EXCEPT !.cloudAuth = AuthToken(resolver.now + life), !.pc = "idle"]
    /\ UNCHANGED <<lookup, discovery>>
    /\ UNCHANGED session

\* a request fails: the caches are as they were
RequestFails ==
    /\ resolver.pc \in {"portalRequest", "cloudRequest"}
    /\ resolver' = [resolver EXCEPT !.pc = "idle"]
    /\ UNCHANGED <<lookup, discovery>>
    /\ UNCHANGED session

----------------------------------------------------------------------------
(* Initial state: a freshly constructed EzloHub, 87-90 and 517-518 *)

InitSession ==
    /\ isConnected = FALSE
    /\ ws = "closed"
    /\ ops = <<>>
    /\ nextId = 1
    /\ observers = <<>>
    /\ nextHandle = 1
    /\ removed = {}
    /\ dispatchQ = <<>>
    /\ invoked = <<>>
    /\ pingExpiry = "undefined"
    /\ pingListener = FALSE
    /\ closeWaiters = 0
    /\ intervals = <<>>
    /\ reconnectInterval = 0
    /\ unsolicited = 0
    /\ loggedIn = FALSE
    /\ firstSent = "none"

Init ==
    /\ InitSession
    /\ lookup = NoLookup
    /\ discovery = NoDiscovery
    /\ resolver = NoResolver

----------------------------------------------------------------------------
(* Application calls *)

\* a call that starts a promise chain: connect(), info() (standing for every
\* plain request/response operation), runScene(scene), setHouseMode(mode)
AppCall(kind, arg, method) ==
    /\ NumApp < MaxOps
    /\ LET i == Len(ops) + 1
           o == connect(NewOp(kind, arg, method, 0), isConnected, ws, nextId)
       IN  /\ ops' = Append(ops, o)
           /\ nextId' = IF o.rid # 0 THEN nextId + 1 ELSE nextId
           \* runScene registers its completion observer before it sends, 382
           /\ observers' = IF kind = "runScene"
                           THEN addObserver(observers, Observer(nextHandle, "scene", arg, i, "complete"))
                           ELSE observers
           /\ nextHandle' = IF kind = "runScene" THEN nextHandle + 1 ELSE nextHandle
    /\ ws' = wsAfterConnect(isConnected, ws)
    /\ UNCHANGED loggedIn
    /\ UNCHANGED aux
    /\ UNCHANGED <<isConnected, pingListener, removed, dispatchQ, invoked, pingExpiry, closeWaiters,
                   intervals, reconnectInterval, unsolicited>>
    /\ firstSent' = FirstSent

AppConnect == AppCall("connect", "none", "none")
AppInfo == AppCall("info", "none", "hub.info.get")
AppRunScene == \E s \in Scenes : AppCall("runScene", s, "hub.scenes.run")
AppSetHouseMode == \E m \in Modes : AppCall("setHouseMode", m, "hub.modes.get")

\* EzloHub.disconnect, 178-181; wsp.close() resolves at once on a closed
\* socket and otherwise starts the closing handshake and resolves when the
\* socket has closed
AppDisconnect ==
    /\ NumApp < MaxOps
    /\ isConnected' = FALSE
    /\ ws' = wsAfterClose(ws)
    /\ LET o == NewOp("disconnect", "none", "none", 0)
       IN  ops' = Append(ops, IF ws = "closed" THEN resolve(o, "closed")
                              ELSE [o EXCEPT !.pc = "closing"])
    /\ UNCHANGED loggedIn
    /\ UNCHANGED aux
    /\ UNCHANGED <<nextId, observers, nextHandle, removed, dispatchQ, invoked, pingExpiry,
                   pingListener, closeWaiters, intervals, reconnectInterval, unsolicited>>
    /\ firstSent' = FirstSent

AppAddObserverOf(P, D) ==
    /\ NumAppObservers < MaxAppObservers
    /\ \E p \in P, d \in D :
          observers' = addObserver(observers, Observer(nextHandle, "app", p, 0, d))
    /\ nextHandle' = nextHandle + 1
    /\ UNCHANGED loggedIn
    /\ UNCHANGED aux
    /\ UNCHANGED <<isConnected, ws, ops, nextId, removed, dispatchQ, invoked, pingExpiry,
                   pingListener, closeWaiters, intervals, reconnectInterval,
                   unsolicited>>
    /\ firstSent' = FirstSent

AppRemoveObserver ==
    /\ \E k \in DOMAIN observers :
          /\ observers[k].kind = "app"
          /\ observers[k].id \notin removed
          /\ observers' = removeObserver(observers, {observers[k].id})
          /\ removed' = removed \cup {observers[k].id}
    /\ UNCHANGED nextHandle
    /\ UNCHANGED loggedIn
    /\ UNCHANGED aux
    /\ UNCHANGED <<isConnected, ws, ops, nextId, dispatchQ, invoked, pingExpiry,
                   pingListener, closeWaiters, intervals, reconnectInterval,
                   unsolicited>>
    /\ firstSent' = FirstSent

----------------------------------------------------------------------------
(* Transport events *)

\* the socket opens: the supervisor's onOpen listener runs startHeartbeat
\* (528-543) and every connect() waiting for the open sends its login (155)
WsOpened ==
    /\ ws = "opening"
    /\ ws' = "open"
    /\ LET waiting == {i \in DOMAIN ops : ops[i].pc = "opening"}
           rank(i) == Cardinality({j \in waiting : j < i})
       IN  /\ ops' = [i \in DOMAIN ops |->
                        IF i \in waiting THEN wspSendLogin(ops[i], nextId + rank(i)) ELSE ops[i]]
           /\ nextId' = nextId + Cardinality(waiting)
    /\ IF pingExpiry = "undefined"
       THEN pingListener' = TRUE /\ pingExpiry' = "armed"
       ELSE UNCHANGED <<pingListener, pingExpiry>>
    /\ UNCHANGED loggedIn
    /\ UNCHANGED aux
    /\ UNCHANGED <<isConnected, observers, nextHandle, removed, dispatchQ, invoked, closeWaiters,
                   intervals, reconnectInterval, unsolicited>>
    /\ firstSent' = FirstSent

\* the socket's close event: pending opens and pending requests fail, and
\* every supervisor continuation waiting for close() runs reconnect() (549-566)
HandleClose ==
    /\ ws' = "closed"
    /\ loggedIn' = FALSE
    /\ pingListener' = FALSE
    /\ closeWaiters' = 0
    /\ ops' = [i \in DOMAIN ops |->
                 CASE ops[i].pc \in {"opening", "login"} -> connectRejected(ops[i], "transport")
                   [] ops[i].pc = "request" -> sendRequestFailed(ops[i], "transport")
                   [] ops[i].pc = "closing" -> [resolve(ops[i], "closed") EXCEPT !.pc = "idle"]
                   [] OTHER -> ops[i]]
    /\ intervals' = SupEffects(ops, ops', intervals, reconnectInterval)
                        \o Repeat(NewInterval, closeWaiters)
    /\ reconnectInterval' = IF closeWaiters > 0 THEN Len(intervals) + closeWaiters
                            ELSE reconnectInterval
    /\ pingExpiry' = IF closeWaiters > 0 THEN "undefined" ELSE pingExpiry
    /\ observers' = observersAfterClose(observers)
    /\ UNCHANGED aux
    /\ UNCHANGED <<isConnected, nextId, nextHandle, removed, dispatchQ, invoked,
                   unsolicited>>
    /\ firstSent' = FirstSent

\* the hub refuses the connection (or the handshake is aborted by close())
WsOpenFailed == ws \in {"opening", "aborting"} /\ HandleClose

\* the hub or the network closes the socket, or a close() handshake completes
WsClosed == ws \in {"open", "closing"} /\ HandleClose

----------------------------------------------------------------------------
(* Inbound messages *)

ResponsesTo(o) ==
    CASE o.pc = "login" ->
            {Msg(o.rid, e, "none", "none", "none", "none", "none") : e \in LoginErrors}
      [] o.method = "hub.scenes.run" ->
            {Msg(o.rid, "null", "none", sc, "none", "none", "none") : sc \in {o.arg, "none"}}
            \cup {Msg(o.rid, "rpc.error", "none", "none", "none", "none", "none")}
      [] o.method = "hub.modes.get" ->
            {Msg(o.rid, "null", "none", "none", "none", "none", m) : m \in Modes}
            \cup {Msg(o.rid, "rpc.error", "none", "none", "none", "none", "none")}
      [] OTHER ->
            {Msg(o.rid, e, "none", "none", "none", "none", "none") : e \in ResponseErrors}

\* a response arrives: the transport resolves the pending request with the
\* same id and schedules the message for the observers
HubResponds ==
    /\ ws \in {"open", "closing"}
    /\ Len(dispatchQ) < MaxQueue
    /\ \E i \in DOMAIN ops :
         /\ ops[i].pc \in {"login", "request"}
         /\ \E resp \in ResponsesTo(ops[i]) :
              LET login == ops[i].pc = "login"
                  conn == IF login THEN isConnectedAfterLogin(resp) ELSE isConnected
                  o == IF login THEN onLoginResponse(ops[i], resp, ws, nextId)
                       ELSE onResponse(ops[i], resp, conn, ws, nextId)
                  switching == /\ ~login
                               /\ ops[i].method = "hub.modes.get"
                               /\ o.method = "hub.modes.switch"
              IN  /\ ops' = [ops EXCEPT ![i] = o]
                  /\ isConnected' = conn
                  \* the hub regards the socket as logged in once it has accepted a login
                  /\ loggedIn' = (loggedIn \/ (login /\ ~loginRefused(resp)))
                  /\ nextId' = IF Transmits(ops[i], o) THEN nextId + 1 ELSE nextId
                  \* setHouseMode registers its observer before the switch request, 426
                  /\ observers' = IF switching
                                  THEN addObserver(observers, Observer(nextHandle, "mode", o.arg, i, "complete"))
                                  ELSE observers
                  /\ nextHandle' = IF switching THEN nextHandle + 1 ELSE nextHandle
                  /\ dispatchQ' = Append(dispatchQ, resp)
                  /\ intervals' = SupEffects(ops, ops', intervals, reconnectInterval)
    /\ UNCHANGED aux
    /\ UNCHANGED <<ws, removed, invoked, pingExpiry, pingListener, closeWaiters,
                   reconnectInterval, unsolicited>>
    /\ firstSent' = FirstSent

\* a message that answers no pending request arrives
HubSendsFrom(S) ==
    /\ ws \in {"open", "closing"}
    /\ unsolicited < MaxUnsolicited
    /\ Len(dispatchQ) < MaxQueue
    /\ unsolicited' = unsolicited + 1
    /\ \E m \in S : dispatchQ' = Append(dispatchQ, m)
    /\ UNCHANGED loggedIn
    /\ UNCHANGED aux
    /\ UNCHANGED <<isConnected, ws, ops, nextId, observers, nextHandle, removed, invoked, pingExpiry,
                   pingListener, closeWaiters, intervals, reconnectInterval>>
    /\ firstSent' = FirstSent

\* notifyObservers, 475-478, on the oldest scheduled message
Dispatch ==
    /\ dispatchQ # <<>>
    /\ LET msg == Head(dispatchQ)
           sel == Matching(observers, msg, 1)
           st == RunHandlers(sel, 1, [inv |-> <<>>, obs |-> observers, rem |-> removed,
                                      nh |-> nextHandle])
           tracked == {k \in DOMAIN sel : sel[k].does = "complete" /\ sel[k].id \in Range(st.inv)}
           \* msg.result.scene_id for a scene observer, msg.result.to for a mode observer
           result(k) == IF sel[k].kind = "scene" THEN msg.scene_id ELSE msg.to
       IN  /\ invoked' = st.inv
           /\ ops' = [i \in DOMAIN ops |->
                        IF \E k \in tracked : sel[k].op = i
                        THEN completionHandler(ops[i],
                                 result(CHOOSE k \in tracked : sel[k].op = i))
                        ELSE ops[i]]
           /\ removed' = st.rem
           /\ observers' = st.obs
           /\ nextHandle' = st.nh
    /\ dispatchQ' = Tail(dispatchQ)
    /\ UNCHANGED loggedIn
    /\ UNCHANGED aux
    /\ UNCHANGED <<isConnected, ws, nextId, pingExpiry, pingListener, closeWaiters,
                   intervals, reconnectInterval, unsolicited>>
    /\ firstSent' = FirstSent

\* the completion timeout of runScene / setHouseMode fires
OpTimerFires ==
    /\ \E i \in DOMAIN ops :
         /\ ops[i].timer = "armed"
         /\ ops' = [ops EXCEPT ![i] = expiryCallback(ops[i])]
         /\ removed' = removed \cup HandlesOf(observers, i)
         /\ observers' = removeObserver(observers, HandlesOf(observers, i))
    /\ UNCHANGED loggedIn
    /\ UNCHANGED aux
    /\ UNCHANGED <<isConnected, ws, nextId, nextHandle, dispatchQ, invoked, pingExpiry, pingListener,
                   closeWaiters, intervals, reconnectInterval, unsolicited>>
    /\ firstSent' = FirstSent

----------------------------------------------------------------------------
(* Keep-alive supervisor *)

\* the hub pings on the open socket: heartbeat(), 529-536, re-arms the
\* deadline.  A ping during the closing handshake is PingWhileClosing.
Ping ==
    /\ ws = "open"
    /\ pingListener
    /\ pingExpiry' = "armed"
    /\ UNCHANGED loggedIn
    /\ UNCHANGED aux
    /\ UNCHANGED <<isConnected, ws, ops, nextId, observers, nextHandle, removed, dispatchQ, invoked,
                   pingListener, closeWaiters, intervals, reconnectInterval,
                   unsolicited>>
    /\ firstSent' = FirstSent

\* a ping arrives while the socket is closing: the 'ping' listener is still
\* attached and heartbeat(), 529-536, sets a new timeout whatever became of
\* the old one
PingWhileClosing ==
    /\ ws = "closing"
    /\ pingListener
    /\ pingExpiry' = "armed"
    /\ UNCHANGED loggedIn
    /\ UNCHANGED aux
    /\ UNCHANGED <<isConnected, ws, ops, nextId, observers, nextHandle, removed, dispatchQ, invoked,
                   pingListener, closeWaiters, intervals, reconnectInterval,
                   unsolicited>>
    /\ firstSent' = FirstSent

\* the deadline elapses, 531-535: hub.disconnect().then(() => this.reconnect())
PingExpiryFires ==
    /\ pingExpiry = "armed"
    /\ Len(intervals) + closeWaiters < MaxIntervals
    /\ isConnected' = FALSE
    /\ IF ws = "closed"
       THEN /\ pingExpiry' = "undefined"
            /\ intervals' = Append(intervals, NewInterval)
            /\ reconnectInterval' = Len(intervals) + 1
            /\ UNCHANGED <<ws, closeWaiters>>
       ELSE /\ pingExpiry' = "fired"
            /\ ws' = wsAfterClose(ws)
            /\ closeWaiters' = closeWaiters + 1
            /\ UNCHANGED <<intervals, reconnectInterval>>
    /\ UNCHANGED loggedIn
    /\ UNCHANGED aux
    /\ UNCHANGED <<ops, nextId, observers, nextHandle, removed, dispatchQ, invoked, pingListener,
                   unsolicited>>
    /\ firstSent' = FirstSent

\* a tick of a polling timer, 552-565
IntervalTick ==
    /\ NumSup < MaxSupConnects
    /\ \E k \in DOMAIN intervals :
         /\ intervals[k].active
         /\ ~intervals[k].inProgress
         /\ ~isConnected
         /\ LET o == connect(NewOp("supConnect", "none", "none", k), isConnected, ws, nextId)
                started == [intervals EXCEPT ![k].inProgress = TRUE]
            IN  /\ ops' = Append(ops, o)
                /\ nextId' = IF o.rid # 0 THEN nextId + 1 ELSE nextId
                /\ intervals' = IF o.outcome = "rejected"
                                THEN [started EXCEPT ![k].inProgress = FALSE]
                                ELSE started
    /\ ws' = wsAfterConnect(isConnected, ws)
    /\ UNCHANGED loggedIn
    /\ UNCHANGED aux
    /\ UNCHANGED <<isConnected, pingListener, observers, nextHandle, removed, dispatchQ, invoked, pingExpiry,
                   closeWaiters, reconnectInterval, unsolicited>>
    /\ firstSent' = FirstSent

HubSends == HubSendsFrom(UnsolicitedMessages)

HubSendsScene == HubSendsFrom(SceneMessages)

AppAddObserver == AppAddObserverOf(AppPredicates, HandlerKinds)

\* the application observes every broadcast, with a handler that throws
AppObserveBroadcasts == AppAddObserverOf({"UIBroadcastPredicate"}, {"throw"})

----------------------------------------------------------------------------
(* Specifications.  Spec is the whole system.  The others restrict what the
   application and the hub do, not what the client does with it. *)

Next ==
    \/ AppConnect
    \/ AppInfo
    \/ AppRunScene
    \/ AppSetHouseMode
    \/ AppDisconnect
    \/ AppAddObserver
    \/ AppRemoveObserver
    \/ WsOpened
    \/ WsOpenFailed
    \/ WsClosed
    \/ HubResponds
    \/ HubSends
    \/ Dispatch
    \/ OpTimerFires
    \/ Ping
    \/ PingWhileClosing
    \/ PingExpiryFires
    \/ IntervalTick

Spec == Init /\ [][Next]_vars


\* the application runs scenes, switches house modes and disconnects;
\* heartbeats arrive in time
NextActions ==
    \/ AppRunScene
    \/ AppSetHouseMode
    \/ AppDisconnect
    \/ WsOpened
    \/ WsOpenFailed
    \/ WsClosed
    \/ HubResponds
    \/ HubSends
    \/ Dispatch
    \/ OpTimerFires

SpecActions == Init /\ [][NextActions]_vars

\* the application connects, asks for the hub's properties and disconnects,
\* while the supervisor watches the heartbeat
NextSession ==
    \/ AppConnect
    \/ AppInfo
    \/ AppDisconnect
    \/ WsOpened
    \/ WsOpenFailed
    \/ WsClosed
    \/ HubResponds
    \/ Dispatch
    \/ Ping
    \/ PingExpiryFires
    \/ IntervalTick

SpecSession == Init /\ [][NextSession]_vars

\* the same, with heartbeats that arrive during a closing handshake
NextHeartbeat ==
    \/ AppConnect
    \/ AppInfo
    \/ AppDisconnect
    \/ WsOpened
    \/ WsOpenFailed
    \/ WsClosed
    \/ HubResponds
    \/ Dispatch
    \/ Ping
    \/ PingWhileClosing
    \/ PingExpiryFires
    \/ IntervalTick

SpecHeartbeat == Init /\ [][NextHeartbeat]_vars

\* the application registers observers of its own and runs scenes and
\* switches house modes on a transport that stays up
NextCompletion ==
    \/ AppRunScene
    \/ AppSetHouseMode
    \/ AppObserveBroadcasts
    \/ WsOpened
    \/ HubResponds
    \/ HubSends
    \/ Dispatch
    \/ OpTimerFires

SpecCompletion == Init /\ [][NextCompletion]_vars

\* the application has registered observers for broadcasts whose handlers
\* return; it connects and disconnects, the hub drops the transport and the
\* supervisor reconnects, and messages about scenes arrive
InitObserved ==
    /\ \E n \in 0..MaxAppObservers :
          \E f \in [1..n -> {"UIBroadcastPredicate", "UIBroadcastRunSceneDonePredicate"}] :
              /\ observers = [k \in 1..n |-> Observer(k, "app", f[k], 0, "nothing")]
              /\ nextHandle = n + 1
    /\ isConnected = FALSE
    /\ ws = "closed"
    /\ ops = <<>>
    /\ nextId = 1
    /\ removed = {}
    /\ dispatchQ = <<>>
    /\ invoked = <<>>
    /\ pingExpiry = "undefined"
    /\ pingListener = FALSE
    /\ closeWaiters = 0
    /\ intervals = <<>>
    /\ reconnectInterval = 0
    /\ unsolicited = 0
    /\ loggedIn = FALSE
    /\ firstSent = "none"
    /\ lookup = NoLookup
    /\ discovery = NoDiscovery
    /\ resolver = NoResolver

NextPersistence ==
    \/ AppConnect
    \/ AppDisconnect
    \/ WsOpened
    \/ WsOpenFailed
    \/ WsClosed
    \/ HubResponds
    \/ HubSendsScene
    \/ Dispatch
    \/ PingExpiryFires
    \/ IntervalTick

SpecPersistence == InitObserved /\ [][NextPersistence]_vars

\* the application registers and removes observers on a connected session
NextObservers ==
    \/ AppConnect
    \/ AppAddObserver
    \/ AppRemoveObserver
    \/ WsOpened
    \/ WsOpenFailed
    \/ WsClosed
    \/ HubResponds
    \/ HubSends
    \/ Dispatch

SpecObservers == Init /\ [][NextObservers]_vars


\* the supervisor at work: the application connects and asks for the hub's
\* properties but does not disconnect.  Timers whose delay has elapsed fire,
\* the deadline for sure once no ping can re-arm it; a closing handshake
\* completes; the hub answers what it is asked and its messages are dispatched.
NextReconnect ==
    \/ AppConnect
    \/ AppInfo
    \/ WsOpened
    \/ WsOpenFailed
    \/ WsClosed
    \/ HubResponds
    \/ Dispatch
    \/ Ping
    \/ PingExpiryFires
    \/ IntervalTick

FairReconnect ==
    /\ WF_vars(WsOpened)
    /\ WF_vars(ws = "aborting" /\ WsOpenFailed)
    /\ WF_vars(ws = "closing" /\ WsClosed)
    /\ WF_vars(HubResponds)
    /\ WF_vars(Dispatch)
    /\ WF_vars(IntervalTick)
    /\ WF_vars(ws # "open" /\ PingExpiryFires)

SpecReconnect == Init /\ [][NextReconnect]_vars /\ FairReconnect

\* a lookup by name on any list the hub may return, for a name that is in
\* the list or not
InitLookup ==
    /\ InitSession
    /\ lookup \in {[which |-> w, list |-> l, name |-> n, outcome |-> "pending", value |-> "none"] :
                       w \in Lookups, l \in Lists, n \in Names \cup {"none"}}
    /\ discovery = NoDiscovery
    /\ resolver = NoResolver

NextLookup == LookupByName

SpecLookup == InitLookup /\ [][NextLookup]_vars

\* hubs appear on and disappear from the network, and createHub runs
NextDiscovery ==
    \E s \in Serials :
        \/ ServiceUp(s)
        \/ CredentialsResolved(s)
        \/ CredentialsFailed(s)
        \/ Resolve4Resolved(s)
        \/ Resolve4Failed(s)
        \/ ServiceDown(s)

SpecDiscovery == Init /\ [][NextDiscovery]_vars

\* a resolver is asked for tokens again and again while time passes
NextResolver ==
    \/ Tick
    \/ CloudAuthenticate
    \/ PortalResponse
    \/ CloudResponse
    \/ RequestFails

SpecResolver == Init /\ [][NextResolver]_vars

----------------------------------------------------------------------------
(* Properties *)

IsDispatch == dispatchQ # <<>> /\ dispatchQ' = Tail(dispatchQ)
Trackers == {i \in DOMAIN ops : ops[i].kind \in {"runScene", "setHouseMode"}}

C2_ConnectIffLoginAccepted ==
    [][\A i \in DOMAIN ops :
         (ops[i].kind = "connect" /\ ops[i].pc = "login" /\ ops'[i].loginErr # "none") =>
            IF ops'[i].loginErr \in {"null", ALREADY_LOGGED}
            THEN ops'[i].outcome = "resolved" /\ isConnected'
            ELSE ops'[i].outcome = "rejected" /\ ~isConnected'
    ]_vars

\* C3: once removeObserver(handle) has returned, no later dispatch pass
\* invokes the handler registered under that handle.
C3_RemovedObserverNotInvoked ==
    [][IsDispatch => \A k \in DOMAIN invoked' : invoked'[k] \notin removed]_vars

\* C4: once runScene / setHouseMode has settled, its transient observer is
\* no longer in the registry.
C4_NoTransientObserverAfterSettle ==
    \A i \in Trackers :
        ops[i].outcome # "pending" => \A h \in HandlesOf(observers, i) : ~InRegistry(h)

\* C5: runScene(s) is resolved only by the dispatch of a ui_broadcast of
\* subclass hub.scene.run.progress with scene_id s and status finished, and
\* then resolves to s.
C5_RunSceneResolvedOnlyByFinishedBroadcast ==
    [][\A i \in DOMAIN ops :
         (ops[i].kind = "runScene" /\ ops[i].outcome = "pending" /\ ops'[i].outcome = "resolved") =>
            /\ IsDispatch
            /\ Head(dispatchQ).id = UI_BROADCAST
            /\ Head(dispatchQ).msg_subclass = "hub.scene.run.progress"
            /\ Head(dispatchQ).scene_id = ops[i].arg
            /\ Head(dispatchQ).status = "finished"
            /\ ops'[i].value = ops[i].arg
    ]_vars

\* C6: processing the response that acknowledges hub.scenes.run (a message
\* carrying a request id) leaves runScene pending: the dispatch of a
\* response never changes the outcome of a runScene call.
C6_RunSceneStillPendingAfterResponse ==
    [][(IsDispatch /\ Head(dispatchQ).id > 0) =>
          \A i \in DOMAIN ops :
             ops[i].kind = "runScene" => ops'[i].outcome = ops[i].outcome
    ]_vars

\* C7: setHouseMode(m), when the current mode differs from m, is resolved
\* only by the dispatch of a ui_broadcast of subclass hub.modes.switched with
\* to = m and status done, and then resolves to m.
C7_SetHouseModeResolvedOnlyByDoneBroadcast ==
    [][\A i \in DOMAIN ops :
         (/\ ops[i].kind = "setHouseMode"
          /\ ops[i].outcome = "pending"
          /\ ops'[i].outcome = "resolved"
          /\ ops'[i].current # ops[i].arg) =>
            /\ IsDispatch
            /\ Head(dispatchQ).id = UI_BROADCAST
            /\ Head(dispatchQ).msg_subclass = "hub.modes.switched"
            /\ Head(dispatchQ).to = ops[i].arg
            /\ Head(dispatchQ).status = "done"
            /\ ops'[i].value = ops[i].arg
    ]_vars

\* C8: setHouseMode(m) that reads a current mode equal to m has resolved to
\* m, has transmitted no hub.modes.switch request, has registered no
\* completion observer and has armed no timer.
C8_SameModeShortCircuit ==
    \A i \in DOMAIN ops :
        (ops[i].kind = "setHouseMode" /\ ops[i].current = ops[i].arg) =>
            /\ ops[i].outcome = "resolved"
            /\ ops[i].value = ops[i].arg
            /\ ops[i].pc = "idle"
            /\ ops[i].method = "hub.modes.get"
            /\ ops[i].sent = "hub.modes.get"
            /\ ops[i].timer = "unset"
            /\ HandlesOf(observers, i) = {}

\* C8 witness: a setHouseMode call found the hub already in the requested mode
C8_Witness ==
    \E i \in DOMAIN ops :
        /\ ops[i].kind = "setHouseMode"
        /\ ops[i].current = ops[i].arg
        /\ ops[i].outcome = "resolved"

DisconnectedByApp ==
    LET app == {i \in DOMAIN ops : ops[i].kind # "supConnect"}
    IN  app # {} /\ ops[CHOOSE i \in app : \A j \in app : j <= i].kind = "disconnect"

\* C10: while the application's latest call is disconnect(), the supervisor
\* issues no connect() call.
C10_NoSupervisorConnectAfterDisconnect ==
    [][DisconnectedByApp => NumSup' = NumSup]_vars

\* the reconnect polling loops that have not been cleared, and the
\* supervisor's connect() calls that have not settled
ActiveLoops == {k \in DOMAIN intervals : intervals[k].active}
SupInFlight == {i \in DOMAIN ops : ops[i].kind = "supConnect" /\ ops[i].outcome = "pending"}

\* C11: at most one reconnect polling loop is active and at most one
\* connect() call issued by the supervisor is in flight.
C11_OneLoopOneAttempt ==
    Cardinality(ActiveLoops) <= 1 /\ Cardinality(SupInFlight) <= 1


\* C12: a heartbeat lapse disconnects the session and starts a polling loop
\* whose tick connects when it should.  An open transport always has its
\* deadline armed; when the deadline elapses the session is marked
\* disconnected and the transport is closed or closing; when that
\* disconnect completes, a fresh polling loop is the current one; whenever
\* the current loop is active, the session is not connected and no
\* supervisor attempt is outstanding, the loop's tick is free to connect;
\* and the supervisor issues connect() only from such a tick.
C12_LapseDisconnectsThenPolls ==
    [][/\ ws = "open" => pingExpiry = "armed"
       /\ (pingExpiry = "armed" /\ pingExpiry' # "armed") =>
             /\ ~isConnected'
             /\ ws' \in {"closed", "closing", "aborting"}
       /\ (pingExpiry # "undefined" /\ pingExpiry' = "undefined") =>
             /\ ws' = "closed"
             /\ Len(intervals') = Len(intervals) + 1
             /\ reconnectInterval' = Len(intervals')
             /\ intervals'[reconnectInterval'].active
       /\ (/\ reconnectInterval # 0
           /\ intervals[reconnectInterval].active
           /\ ~isConnected
           /\ SupInFlight = {}) => ~intervals[reconnectInterval].inProgress
       /\ NumSup' > NumSup =>
             /\ ~isConnected
             /\ \E k \in ActiveLoops : ~intervals[k].inProgress /\ ops'[Len(ops')].interval = k
    ]_vars

\* C12 witness: after a lapse, a tick of the polling loop has issued a
\* connect() that is waiting for the transport to open
C12_Witness ==
    \E i \in DOMAIN ops :
        /\ ops[i].kind = "supConnect"
        /\ ops[i].pc = "opening"
        /\ ops[i].interval = reconnectInterval


\* a step in which the hub refuses or drops the transport, or refuses a login
HubFails ==
    \/ ws \in {"opening", "open"} /\ ws' = "closed"
    \/ /\ Len(dispatchQ') = Len(dispatchQ) + 1
       /\ loginRefused(dispatchQ'[Len(dispatchQ')])
       /\ \E i \in DOMAIN ops :
            ops[i].pc = "login" /\ ops[i].rid = dispatchQ'[Len(dispatchQ')].id

\* the supervisor has torn the connection down: its disconnect() is closing
\* the transport, or a polling loop is running
TornDown == closeWaiters > 0 \/ ActiveLoops # {}

Reconnected == isConnected /\ ws = "open" /\ loggedIn

\* the supervisor may issue no further connect() or start no further loop
Exhausted == NumSup = MaxSupConnects \/ Len(intervals) + closeWaiters = MaxIntervals

\* C13: if from some point on the hub neither refuses nor drops the
\* transport and refuses no login, then after every tear-down by the
\* supervisor the session is eventually connected again with an open,
\* logged-in transport.
C13_EventuallyReconnected ==
    <>[][~HubFails]_vars => (TornDown ~> (Reconnected \/ Exhausted))


\* C14: an inbound message is a response or a broadcast, never both.  A
\* message that arrives with the id of a pending request (a response) is
\* delivered to no observer's handler when it is dispatched, and a message
\* that arrives with any other id settles and advances no request.
C14_ResponseOrBroadcastNeverBoth ==
    [][/\ (IsDispatch /\ Head(dispatchQ).id > 0) => invoked' = <<>>
       /\ (Len(dispatchQ') = Len(dispatchQ) + 1 /\ dispatchQ'[Len(dispatchQ')].id <= 0) =>
             ops' = ops
    ]_vars


\* the observers that have been registered and not removed, in registration order
Registered == removeObserverResult(observers, removed, 1)

\* C15: the handlers a dispatch pass invokes are exactly those of the
\* registered (added and not removed) observers whose predicate is true for
\* the message, once each, in registration order.
C15_ExactlyMatchingInOrder ==
    [][IsDispatch => invoked' = Ids(Matching(Registered, Head(dispatchQ), 1))]_vars

\* C16: the handlers invoked for a message are taken from the registry as it
\* stood when the pass began (the pass runs a prefix of that selection, and
\* stops short only behind a handler that throws), and the observers that
\* handlers removed during the pass are out of the registry once it is over.
C16_SnapshotThenEffect ==
    [][IsDispatch =>
         LET sel == Matching(observers, Head(dispatchQ), 1)
             n == Len(invoked')
         IN  /\ n <= Len(sel)
             /\ invoked' = SubSeq(Ids(sel), 1, n)
             /\ n < Len(sel) => (n > 0 /\ sel[n].does = "throw")
             /\ \A h \in removed' \ removed :
                   \A k \in DOMAIN observers' : observers'[k].id # h
    ]_vars

\* C17: every observer whose predicate is true for a dispatched message has
\* its handler invoked, whatever the handlers of the others do.
C17_ThrowDoesNotStopOthers ==
    [][IsDispatch =>
         \A k \in DOMAIN Matching(observers, Head(dispatchQ), 1) :
            Matching(observers, Head(dispatchQ), 1)[k].id \in Range(invoked')
    ]_vars


\* the connect() calls made by the application and by the supervisor, and
\* whether one is in progress (waiting for the open or for its login response)
ConnectCalls == {i \in DOMAIN ops : ops[i].kind \in {"connect", "supConnect"}}
ConnectInProgress(o) == o.pc \in {"opening", "login"}

\* C18: a connect() called while another is in progress shares its attempt:
\* the call leaves the transport as it is, and when one of two connect()
\* calls in progress completes, the other completes in the same step with
\* the same outcome.
C18_ConcurrentConnectShared ==
    [][/\ (/\ \E i \in ConnectCalls : ConnectInProgress(ops[i])
           /\ Len(ops') = Len(ops) + 1
           /\ ops'[Len(ops')].kind # "disconnect") => ws' = ws
       /\ \A i, j \in ConnectCalls :
            (/\ ConnectInProgress(ops[i])
             /\ ConnectInProgress(ops[j])
             /\ ~ConnectInProgress(ops'[i])) =>
                /\ ~ConnectInProgress(ops'[j])
                /\ ops'[j].outcome = ops'[i].outcome
    ]_vars


\* C19: connect() called by the application while isConnected() is true
\* resolves in the call itself and changes nothing else: the transport, the
\* request ids (no login is sent), the connected flag, the supervisor's
\* deadline and polling loops, the registry and the other calls stay as
\* they were.
C19_ConnectWhenConnectedIsNoOp ==
    [][(/\ isConnected
        /\ Len(ops') = Len(ops) + 1
        /\ ops'[Len(ops')].kind = "connect") =>
           /\ ops'[Len(ops')].outcome = "resolved"
           /\ ops'[Len(ops')].value = "hub"
           /\ ops'[Len(ops')].pc = "idle"
           /\ SubSeq(ops', 1, Len(ops)) = ops
           /\ UNCHANGED <<isConnected, ws, nextId, observers, dispatchQ, pingExpiry,
                          pingListener, closeWaiters, intervals, reconnectInterval, loggedIn>>
    ]_vars

\* C19 witness: a connect() call resolved without ever waiting for a login response
C19_Witness ==
    \E i \in DOMAIN ops :
        /\ ops[i].kind = "connect"
        /\ ops[i].outcome = "resolved"
        /\ ops[i].loginErr = "none"


\* C20: every disconnect() call, whatever the state it is made in, marks the
\* session disconnected and leaves the transport closed or closing; made on
\* a session that is already disconnected it resolves at once and changes
\* nothing; and a disconnect() call is never rejected: it resolves, with the
\* transport closed and isConnected() false.
C20_DisconnectUnconditionalIdempotent ==
    [][/\ (Len(ops') = Len(ops) + 1 /\ ops'[Len(ops')].kind = "disconnect") =>
             /\ ~isConnected'
             /\ ws' \in {"closed", "closing", "aborting"}
             /\ ops'[Len(ops')].outcome # "rejected"
             /\ (~isConnected /\ ws = "closed") =>
                   /\ ops'[Len(ops')].outcome = "resolved"
                   /\ ws' = ws
       /\ \A i \in DOMAIN ops :
            (/\ ops[i].kind = "disconnect"
             /\ ops[i].outcome = "pending"
             /\ ops'[i].outcome # "pending") =>
                /\ ops'[i].outcome = "resolved"
                /\ ws' = "closed"
                /\ ~isConnected'
    ]_vars


\* the message a step has just received
Received == dispatchQ'[Len(dispatchQ')]
Receives == Len(dispatchQ') = Len(dispatchQ) + 1

\* C21: a domain operation transmits a request of its own only when
\* isConnected() is true or in the step in which its own login is accepted
\* on an open transport; called on a session that is not connected it
\* starts with the open or the login, not with its request; and when its
\* connect attempt fails the operation is rejected without transmitting.
C21_ConnectBeforeRequest ==
    [][/\ \A i \in DOMAIN ops :
            ops[i].kind \in DomainKinds =>
               /\ ops'[i].sent # ops[i].sent =>
                     \/ isConnected
                     \/ /\ ops[i].pc = "login"
                        /\ ws = "open"
                        /\ Receives
                        /\ Received.id = ops[i].rid
                        /\ ~loginRefused(Received)
               /\ ops[i].pc = "opening" => ops'[i].pc \in {"opening", "login", "idle"}
               /\ (ops[i].pc \in {"opening", "login"} /\ ops'[i].pc = "idle") =>
                     /\ ops'[i].outcome = "rejected"
                     /\ ops'[i].sent = ops[i].sent
       /\ (/\ Len(ops') = Len(ops) + 1
           /\ ops'[Len(ops')].kind \in DomainKinds
           /\ ~isConnected) =>
              /\ ops'[Len(ops')].sent = "none"
              /\ \/ ops'[Len(ops')].pc \in {"opening", "login"}
                 \/ ops'[Len(ops')].outcome = "rejected"
    ]_vars

\* C22: when the response to a domain operation's request arrives, a
\* non-null error leaves the operation rejected, for every operation; a
\* null error resolves a plain request/response operation with the result.
C22_ResponseErrorRejects ==
    [][\A i \in DOMAIN ops :
         (/\ ops[i].kind \in DomainKinds
          /\ ops[i].pc = "request"
          /\ Receives
          /\ Received.id = ops[i].rid) =>
             IF Received.error # "null"
             THEN ops'[i].outcome = "rejected"
             ELSE ops[i].kind = "info" =>
                    ops'[i].outcome = "resolved" /\ ops'[i].value = "result"
    ]_vars


\* C23: a completion tracker is resolved only by a message that carries its
\* own correlating field: runScene(s) only by the dispatch of a message
\* whose scene_id is s, and setHouseMode(m), once it is waiting for the
\* switch, only by the dispatch of a message whose destination mode is m;
\* the value it resolves to is s or m.
C23_NoCrossResolution ==
    [][\A i \in Trackers :
         (ops[i].outcome = "pending" /\ ops'[i].outcome = "resolved") =>
            /\ ops'[i].value = ops[i].arg
            /\ ops[i].kind = "runScene" =>
                  IsDispatch /\ Head(dispatchQ).scene_id = ops[i].arg
            /\ (ops[i].kind = "setHouseMode" /\ ops[i].method = "hub.modes.switch") =>
                  IsDispatch /\ Head(dispatchQ).to = ops[i].arg
            /\ (ops[i].kind = "setHouseMode" /\ ops[i].method = "hub.modes.get") =>
                  Receives /\ Received.id = ops[i].rid /\ Received.current = ops[i].arg
    ]_vars

\* C23 witness: two runScene calls for different scenes overlap; a message
\* has resolved the first while the second, whose request is out, is pending
C23_Witness ==
    /\ Len(ops) = 2
    /\ ops[1].kind = "runScene" /\ ops[2].kind = "runScene"
    /\ ops[1].arg # ops[2].arg
    /\ ops[1].outcome = "resolved"
    /\ ops[2].outcome = "pending" /\ ops[2].sent = "hub.scenes.run"
    /\ Len(observers) = 2


\* the step is the acknowledgement of the request of call i: the response
\* with its id and a null error
Acknowledged(i) ==
    /\ ops[i].pc = "request"
    /\ Receives
    /\ Received.id = ops[i].rid
    /\ Received.error = "null"

\* C24 as stated: when the 60-second timer of an acknowledged runScene
\* fires (no matching message was dispatched since the acknowledgement, or
\* it would have been cleared), runScene is rejected.
C24_TimeoutAfterAckRejects ==
    [][\A i \in DOMAIN ops :
         (ops[i].kind = "runScene" /\ ops[i].timer = "armed" /\ ops'[i].timer = "fired") =>
            ops'[i].outcome = "rejected"
    ]_vars

\* C24 amended: the timer of runScene is started by the acknowledgement of
\* hub.scenes.run and by nothing else; when it fires, a runScene that no
\* matching message has resolved since the call was made is rejected for
\* the timeout, and one already resolved stays resolved; and runScene is not
\* rejected for a timeout in any other step.
C24_TimeoutAfterAckRejectsPending ==
    [][\A i \in DOMAIN ops :
         ops[i].kind = "runScene" =>
            /\ (ops[i].timer = "unset" /\ ops'[i].timer # "unset") <=>
                  (Acknowledged(i) /\ ops[i].method = "hub.scenes.run")
            /\ (ops[i].timer = "unset" /\ ops'[i].timer # "unset") => ops'[i].timer = "armed"
            /\ (ops[i].timer = "armed" /\ ops'[i].timer = "fired") =>
                  IF ops[i].outcome = "pending"
                  THEN ops'[i].outcome = "rejected" /\ ops'[i].cause = "timeout"
                  ELSE ops'[i].outcome = ops[i].outcome
            /\ (ops'[i].cause = "timeout" /\ ops[i].cause # "timeout") =>
                  (ops[i].timer = "armed" /\ ops'[i].timer = "fired")
    ]_vars

\* C24 witness: a runScene call was rejected because its timer fired
C24_Witness ==
    \E i \in DOMAIN ops :
        /\ ops[i].kind = "runScene"
        /\ ops[i].outcome = "rejected"
        /\ ops[i].cause = "timeout"
        /\ ops[i].timer = "fired"


\* the message being dispatched is the completion broadcast for mode m
CompletionBroadcastFor(m) ==
    /\ Head(dispatchQ).id = UI_BROADCAST
    /\ Head(dispatchQ).msg_subclass = "hub.modes.switched"
    /\ Head(dispatchQ).status = "done"
    /\ Head(dispatchQ).to = m

\* C25: a setHouseMode that has asked for the switch fails exactly when its
\* timer, started by the acknowledgement of hub.modes.switch, fires before
\* any completion broadcast for the target mode has been dispatched: its
\* timer is armed by the acknowledgement alone; it is resolved only by the
\* dispatch of the completion broadcast for its mode; when the timer fires
\* on a pending call, the call is rejected for the timeout; and after the
\* acknowledgement it is rejected in no other way.
C25_ModeSwitchTimeout ==
    [][\A i \in DOMAIN ops :
         (ops[i].kind = "setHouseMode" /\ ops[i].method = "hub.modes.switch") =>
            /\ (ops[i].timer = "unset" /\ ops'[i].timer = "armed") <=> Acknowledged(i)
            /\ (ops[i].outcome = "pending" /\ ops'[i].outcome = "resolved") =>
                  IsDispatch /\ CompletionBroadcastFor(ops[i].arg)
            /\ (ops[i].timer = "armed" /\ ops'[i].timer = "fired" /\ ops[i].outcome = "pending") =>
                  ops'[i].outcome = "rejected" /\ ops'[i].cause = "timeout"
            /\ (ops[i].timer # "unset" /\ ops[i].outcome = "pending" /\ ops'[i].outcome = "rejected") =>
                  ops'[i].timer = "fired"
    ]_vars


\* C26: a lookup by name resolves, to the first element of the list whose
\* name is the name asked for, and to undefined when there is none.
C26_LookupFirstMatchOrUndefined ==
    lookup.outcome \notin {"none", "pending"} =>
        /\ lookup.outcome = "resolved"
        /\ LET hits == {k \in DOMAIN lookup.list : lookup.list[k].name = lookup.name}
           IN  IF hits = {} THEN lookup.value = "undefined"
               ELSE lookup.value = lookup.list[CHOOSE k \in hits : \A j \in hits : k <= j]

\* C26 witness: the name occurs twice, not at the head of the list, and the
\* lookup has resolved
C26_Witness ==
    /\ lookup.outcome = "resolved"
    /\ Len(lookup.list) = 3
    /\ lookup.list[1].name # lookup.name
    /\ lookup.list[2].name = lookup.name
    /\ lookup.list[3].name = lookup.name


\* C27: every failure of a public operation is an error that names the hub
\* identity, the attempted operation and the underlying cause.
C27_FailureNamesHubOperationCause ==
    \A i \in DOMAIN ops :
        (ops[i].kind # "supConnect" /\ ops[i].outcome = "rejected") =>
            {"identity", "operation", "cause"} \subseteq ErrorNames(ops[i])


\* C28: the discovery callback is only ever given a hub, never an error value.
C28_CallbackGetsHubOnly ==
    \A k \in DOMAIN discovery.calls : discovery.calls[k].arg = "hub"

Fresh(auth) == auth.defined /\ resolver.now < auth.expiration

IsCloudAuthenticate == resolver'.calls = resolver.calls + 1

\* C30: a call reuses a cached token, portal or cloud, exactly when the
\* token is defined and the current time is before its expiration.
C30_ReuseExactlyWhileFresh ==
    [][IsCloudAuthenticate =>
          /\ resolver'.decision.cloud = "reused" <=> Fresh(resolver.cloudAuth)
          /\ resolver'.decision.portal # "none" =>
                (resolver'.decision.portal = "reused" <=> Fresh(resolver.portalAuth))]_vars


\* C29: a message for which an observer registered with a composed Done
\* predicate is invoked has id 'ui_broadcast', the msg_subclass of the
\* predicate's base and the status of the predicate: each composed predicate
\* is the conjunction of its parts.
C29_DonePredicateIsConjunction ==
    [][IsDispatch =>
          \A k \in DOMAIN observers :
              LET msg == Head(dispatchQ)
                  key == observers[k].key
              IN  (observers[k].kind = "app" /\ observers[k].id \in Range(invoked')) =>
                     /\ key = "UIBroadcastRunSceneDonePredicate" =>
                            /\ msg.id = UI_BROADCAST
                            /\ msg.msg_subclass = "hub.scene.run.progress"
                            /\ msg.status = "finished"
                     /\ key = "UIBroadcastHouseModeChangeDonePredicate" =>
                            /\ msg.id = UI_BROADCAST
                            /\ msg.msg_subclass = "hub.modes.switched"
                            /\ msg.status = "done"
                     /\ msg.id = UI_BROADCAST]_vars

\* the chains that transmit a request of their own method in this step
SendsRequest ==
    {i \in DOMAIN ops' :
        /\ ops'[i].pc = "request"
        /\ (i \in DOMAIN ops => ops[i].rid # ops'[i].rid)}

\* C31: no domain request is transmitted on a transport on which the hub
\* has not accepted a login.
C31_NoRequestBeforeLogin ==
    [][SendsRequest # {} => loggedIn']_vars

\* C32: on every open connection the supervisor is subscribed to that
\* connection's heartbeat, so that each heartbeat resets the deadline.
C32_SubscribedOnEveryOpenConnection ==
    ws = "open" => pingListener

\* C33: once the session is connected again, on an open transport with an
\* accepted login, no polling timer of the supervisor remains scheduled and
\* the supervisor's deadline is armed.
C33_NoPollingOnceConnected ==
    Reconnected => (ActiveLoops = {} /\ pingExpiry = "armed")

SupFailed(n) ==
    n \in DOMAIN ops /\ ops[n].kind = "supConnect" /\ ops[n].outcome = "rejected"

SupAttemptAfter(n) ==
    \E j \in DOMAIN ops : j > n /\ ops[j].kind = "supConnect"

\* C34: every connect() attempt of the reconnect loop that fails is followed
\* by another attempt, unless the session has been connected again meanwhile.
C34_FailedAttemptIsRetried ==
    \A n \in 1..(MaxOps + MaxSupConnects) :
        SupFailed(n) ~> (SupAttemptAfter(n) \/ Reconnected \/ Exhausted)

\* C35: on every transport the first message the client transmits is the
\* login request; no request of an operation precedes it.
C35_LoginIsFirstOnTransport ==
    /\ firstSent \in {"none", "login"}
    /\ (\E i \in DOMAIN ops : ops[i].pc \in {"login", "request"}) => firstSent = "login"

\* C35 witness: a request of an operation is in flight on a transport whose
\* first message was the login
C35_Witness ==
    /\ firstSent = "login"
    /\ \E i \in DOMAIN ops : ops[i].pc = "request" /\ ops[i].kind = "info"

\* C36: once the deadline timer has fired, no heartbeat re-arms it: it is
\* armed again only by the next connection open.
C36_LateHeartbeatDoesNotRearm ==
    [][(pingExpiry = "fired" /\ pingExpiry' = "armed") => (ws = "opening" /\ ws' = "open")]_vars

\* C37: isConnected() is true only while the transport is open.
C37_ConnectedImpliesOpen ==
    isConnected => ws = "open"

\* call i has transmitted the request that triggers its action and is
\* waiting for the response
Triggered(i) ==
    /\ ops[i].pc = "request"
    /\ ops[i].outcome = "pending"
    /\ ops[i].sent \in {"hub.scenes.run", "hub.modes.switch"}

\* the message being dispatched is the completion broadcast of call i
CompletionOf(i) ==
    LET msg == Head(dispatchQ)
    IN  /\ msg.id = UI_BROADCAST
        /\ IF ops[i].kind = "runScene"
           THEN /\ msg.msg_subclass = "hub.scene.run.progress"
                /\ msg.status = "finished"
                /\ msg.scene_id = ops[i].arg
           ELSE /\ msg.msg_subclass = "hub.modes.switched"
                /\ msg.status = "done"
                /\ msg.to = ops[i].arg

\* C38: the completion observer of runScene / setHouseMode is registered
\* when the triggering request is transmitted, and a completion broadcast
\* dispatched between the request and its response resolves the call.
C38_NoLostCompletion ==
    [][/\ \A i \in DOMAIN ops :
             Triggered(i) => \E k \in DOMAIN observers : observers[k].op = i
       /\ IsDispatch =>
             \A i \in DOMAIN ops :
                 (Triggered(i) /\ CompletionOf(i)) => ops'[i].outcome = "resolved"]_vars

\* C39: no step but a dispatch pass changes the observer registry, whatever
\* it does to the connection, and a dispatch pass on any connection invokes
\* the handlers of the registered observers whose predicate is true for the
\* message, in registration order.
C39_RegistrySurvivesConnections ==
    [][/\ ~IsDispatch => observers' = observers
       /\ IsDispatch => invoked' = Ids(Matching(observers, Head(dispatchQ), 1))]_vars

\* C39 witness: after a reconnect by the supervisor, the last message
\* dispatched was handed to an observer registered before any connection
C39_Witness ==
    /\ dispatchQ = <<>>
    /\ invoked # <<>>
    /\ \E i \in DOMAIN ops : ops[i].kind = "supConnect" /\ ops[i].outcome = "resolved"

====
